---- MODULE Spec2Model ----
(***************************************************************************)
(* A model of fbi_to_rss.py: the page data extractor (FBIRadioScraper) and *)
(* the feed emitter (RSSFeedGenerator).                                    *)
(*                                                                         *)
(* Text is modelled by what the code's regular expressions and parsers can *)
(* see of it: a page is a record of the tokens the patterns match, a URL   *)
(* is a record of its parts, an instant is a whole number of ticks with    *)
(* Res ticks to the second (so that sub-second instants exist).            *)
(***************************************************************************)
EXTENDS Integers, Sequences, FiniteSets, TLC

(***************************************************************************)
(* Bounds and sample domains                                               *)
(***************************************************************************)
\* the episode slugs of the sample sites; "" stands for the program page
EpisodeSlugs == {"ep-a", "ep-b", "ep-1st-jan", "ep-30th-feb"}
\* the values datetime.now() can take
NowTicks == {1, 2}
\* longest episode list handed to generate_feed
MaxEps == 3
\* ticks per second
Res == 2
\* sample instants, in ticks relative to the Unix epoch
Ticks == -2 .. 2
\* sample UTC offsets of a datetime, in whole seconds
Offsets == {0, 1}
\* sample offsets of the machine's local time zone, in whole seconds
LocalZones == {0, 1}
\* the two orders feedgen's add_entry can store a new entry in
EntryOrders == {"prepend", "append"}

(***************************************************************************)
(* State                                                                   *)
(***************************************************************************)
VARIABLES
    \* main(): the configured programs and the position of its loop
    programs,       \* the list of program slugs
    progIdx,        \* the index of the program being processed
    pc,             \* where the run stands, see Next
    files,          \* the output files written so far, by program slug
    started,        \* the slugs a scraper was made for so far, in order
    \* the remote site, for the program being processed
    site,           \* its program page and its episode pages, by episode slug
    requests,       \* the URLs requested for this program so far, in order
    clock,          \* the last value datetime.now() returned
    \* a scraper (FBIRadioScraper)
    program_slug,   \* self.program_slug
    show_id,        \* self.show_id, the show-ID cache; "" is None
    \* the locals of get_episodes
    program_image,  \* the cover image
    episode_links,  \* the anchor targets, when the anchor scan is used
    linkIdx,        \* the index of the next link to fetch
    episodes_data,  \* the discovered episodes
    epIdx,          \* the index of the next entry of episodes_data to process
    episodes,       \* the records made so far, and the list returned
    \* the last call of extract_audio_url_from_episode_page
    html,           \* its argument, the episode page
    program_html,   \* what fetch_page(self.program_url) returned to it, if called
    audio,          \* its result: url, tier, fetched
    \* a call of generate_feed
    feedIn,         \* its episodes argument
    feedOut,        \* the items of the written file, in file order
    feedPc,         \* "ready" before the call, "written" after it
    \* the environment of generate_feed
    entryOrder,     \* where feedgen's add_entry stores a new entry
    localZone,      \* the offset of the machine's local time zone
    \* the end of generate_feed, where the file is written
    pretty_xml,     \* the lines of the pretty-printed document
    content,        \* the lines written to the file
    \* a call of extract_json_data followed by extract_episodes_from_json
    page_scripts,   \* what the patterns and the script tags find in the page
    json_data,      \* the value extract_json_data returned
    found           \* whether find_episodes was called, and the objects it made a
                    \* candidate from, in order

mainVars == << programs, progIdx, pc, files >>
siteVars == << site, requests, clock >>
scraperVars == << program_slug, show_id >>
episodeVars ==
    << program_image, episode_links, linkIdx, episodes_data, epIdx, episodes >>
audioVars == << html, program_html, audio >>
feedVars == << feedIn, feedOut, feedPc >>
envVars == << entryOrder, localZone >>
fileVars == << pretty_xml, content >>
jsonVars == << page_scripts, json_data, found >>

vars ==
    << mainVars, started, siteVars, scraperVars, episodeVars, audioVars, feedVars,
       envVars, fileVars, jsonVars >>

(***************************************************************************)
(* Values                                                                  *)
(***************************************************************************)
\* Python's None for an Optional[datetime]
NoDate == [has |-> FALSE, t |-> 0, off |-> 0]
\* a timezone-aware datetime: the instant t (ticks, UTC) shown at UTC offset off
DateOf(t, o) == [has |-> TRUE, t |-> t, off |-> o]

\* f"{BASE_URL}/programs/{program_slug}"
ProgramUrl(prog) == [kind |-> "program", prog |-> prog, ep |-> ""]
\* f"{BASE_URL}/programs/{program_slug}/episodes/{slug}"
EpisodeUrl(prog, slug) == [kind |-> "episode", prog |-> prog, ep |-> slug]

(***************************************************************************)
(* Identifiers and pages                                                   *)
(*                                                                         *)
(* A UUID is a short string; "A" is the upper-case spelling of "a"; "z" is *)
(* a 36-character dashed string that is not hexadecimal (so no UUID to the *)
(* UUID pattern).  A page is the sequence of its tokens in document order: *)
(* what the regular expressions and the JSON parser find in the markup.    *)
(***************************************************************************)
\* org_id default "02b00798-16d7-4067-89ac-aba000ffd8cb"
DEFAULT_ORG_ID == "o"

\* str.lower() of an identifier
Lower(u) == IF u = "A" THEN "a" ELSE u

\* matches [0-9a-f]{8}-[0-9a-f]{4}-[0-9a-f]{4}-[0-9a-f]{4}-[0-9a-f]{12} (re.I)
IsUuidShaped(u) == u \notin {"", "z"}

\* KNOWN_SHOW_IDS
KNOWN_SHOW_IDS ==
    [s \in {"jack-off", "loose-joints", "wildcard-with-stuart-coupe",
            "sunset-with-tangela", "utility-fog"} |->
        CASE s = "jack-off" -> "k1"
          [] s = "loose-joints" -> "k2"
          [] s = "wildcard-with-stuart-coupe" -> "k3"
          [] s = "sunset-with-tangela" -> "k4"
          [] s = "utility-fog" -> "k5"]

\* KNOWN_PROGRAMME_IMAGES
KNOWN_PROGRAMME_IMAGES ==
    [s \in {"sunset-with-tangela", "utility-fog"} |->
        IF s = "sunset-with-tangela"
        THEN [has |-> TRUE, name |-> "sunset with tangela", size |-> "800"]
        ELSE [has |-> TRUE, name |-> "utility fog with peter hollo", size |-> "800"]]

\* an airedAt value: a string of one of the forms "z" (ISO 8601 ending in Z),
\* "offset" (ISO 8601 with an explicit UTC offset off), "naive" (ISO 8601 date
\* and time with no offset), "dateonly", "garbage" (no date at all) or ""
\* (empty, null or missing); or a value that is no string and is not falsy,
\* "number"; t is the instant it denotes, a naive one read as UTC
Aired(form, t, o) == [form |-> form, t |-> t, off |-> o]
NoAired == Aired("", 0, 0)

\* a token of a page; the fields a kind does not use are blank
Tok(k) ==
    [k |-> k, id |-> "", scheme |-> "", hex |-> FALSE, org |-> "", show |-> "",
     clip |-> "", typ |-> "", title |-> "", aired |-> NoAired, form |-> "",
     size |-> "", generic |-> FALSE, desc |-> ""]
\* a UUID-shaped token somewhere in the markup
Uuid(u) == [Tok("uuid") EXCEPT !.id = u]
\* omnyStudio: { orgId: "u" }
OrgCfg(u) == [Tok("orgcfg") EXCEPT !.id = u]
\* omnyStudio: { showId: "u" }
ShowCfg(u) == [Tok("showcfg") EXCEPT !.id = u]
\* buildId: "u"
Build(u) == [Tok("build") EXCEPT !.id = u]
\* {scheme}traffic.omny.fm/d/clips/{org}/{show}/{clip}/audio.mp3; hex says
\* that the three segments are made of hexadecimal digits and dashes only
Cdn(scheme, hex, org, show, clip) ==
    [Tok("cdn") EXCEPT !.scheme = scheme, !.hex = hex, !.org = org,
                       !.show = show, !.clip = clip]
\* an object of the blob with a "uuid" field u, a __typename typ ("clip",
\* "show" or "") and a title ("none": no key, "empty", "text")
JUuid(u, typ, title) == [Tok("juuid") EXCEPT !.id = u, !.typ = typ, !.title = title]
\* an object of the blob with an "omnyStudioClip" field: a dict carrying
\* showId ("dict"), a string holding the text "showId": "u" ("str"), or a
\* plain reference string ("ref")
ClipRef(kind, u) == [Tok("clipref") EXCEPT !.typ = kind, !.show = u]

\* an object of the blob with the keys airedAt, slug and title
Episode(slug, title, aired) ==
    [Tok("episode") EXCEPT !.id = slug, !.title = title, !.aired = aired]
\* the same with a "description" value: "richtext" (a mapping with a root
\* mapping), "null", "string" or "list"; "" is no description key
EpisodeDesc(slug, title, aired, desc) ==
    [Tok("episode") EXCEPT !.id = slug, !.title = title, !.aired = aired,
                           !.desc = desc]
\* an object of the blob with slug and title and no airedAt, whose slug
\* matches the program's (in: true) and whose image is the Image object named
\* image ("" when it has none)
Programme(image) == [Tok("programme") EXCEPT !.show = image]
\* <a href=...>: form "own" when the href contains '/episodes/' and the
\* program slug, and then id is the episode slug it ends with; "foreign"
\* otherwise
Anchor(form, slug) == [Tok("anchor") EXCEPT !.form = form, !.id = slug]
\* an image URL https://media.fbi.radio/images/{id}-{size}.jpg with size
\* "2000" (2000x11dd), "1200" (1200x630), "800" (800x450), "320" (320x320) or
\* "other"; form "sizes": the url of that size in the sizes of an Image
\* object of the blob; "json": some other quoted "url": "..." value; "bare":
\* not quoted as a "url" value.  generic: the file name starts with one of
\* the generic prefixes.
Img(form, size, generic, name) ==
    [Tok("img") EXCEPT !.form = form, !.size = size, !.generic = generic,
                       !.id = name]

\* the kinds of token the parsed structured-data blob holds
JsonKinds == {"juuid", "clipref", "episode", "programme", "img"}

\* fetch_page's None
NoPage == [ok |-> FALSE, blob |-> "none", toks |-> << >>]
\* a fetched page; blob is what extract_json_data can make of it: "ok" (a
\* non-empty mapping), "none" (no blob at all), "bad" (a blob that fails to
\* parse or parses to an empty mapping)
Page(blob, toks) == [ok |-> TRUE, blob |-> blob, toks |-> toks]

\* the subsequence of s whose elements satisfy Test
RECURSIVE SelectToks(_, _)
SelectToks(s, kinds) ==
    IF s = << >> THEN << >>
    ELSE IF Head(s).k \in kinds THEN << Head(s) >> \o SelectToks(Tail(s), kinds)
    ELSE SelectToks(Tail(s), kinds)

\* list(dict.fromkeys(xs)): first occurrences, in order
RECURSIVE Dedupe(_, _)
Dedupe(xs, seen) ==
    IF xs = << >> THEN << >>
    ELSE IF Head(xs) \in seen THEN Dedupe(Tail(xs), seen)
    ELSE << Head(xs) >> \o Dedupe(Tail(xs), seen \cup {Head(xs)})

\* [x for x in xs if x.lower() != bad.lower()]
RECURSIVE WithoutLower(_, _)
WithoutLower(xs, bad) ==
    IF xs = << >> THEN << >>
    ELSE IF Lower(Head(xs)) = Lower(bad) THEN WithoutLower(Tail(xs), bad)
    ELSE << Head(xs) >> \o WithoutLower(Tail(xs), bad)

\* the identifiers of a list of tokens
RECURSIVE IdsOf(_)
IdsOf(s) == IF s = << >> THEN << >> ELSE << Head(s).id >> \o IdsOf(Tail(s))

Range(s) == {s[i] : i \in 1 .. Len(s)}

\* re.findall(uuid_pattern, html, re.I): every UUID-shaped piece of text, whatever
\* it belongs to
RECURSIVE FindAllUuids(_)
FindAllUuids(toks) ==
    IF toks = << >> THEN << >>
    ELSE LET t == Head(toks)
             here == IF t.k = "cdn"
                       THEN SelectSeq(<< t.org, t.show, t.clip >>, IsUuidShaped)
                     ELSE IF t.k = "clipref"
                       THEN SelectSeq(<< t.show >>, IsUuidShaped)
                     ELSE IF t.k \in {"uuid", "orgcfg", "showcfg", "build", "juuid"}
                       THEN SelectSeq(<< t.id >>, IsUuidShaped)
                     ELSE << >>
         IN  here \o FindAllUuids(Tail(toks))

(***************************************************************************)
(* FBIRadioScraper.extract_json_data and the audio locator                 *)
(***************************************************************************)
\* extract_json_data(html): the objects of the blob in document order, or
\* None (has = FALSE) when no pattern yields a non-empty mapping
NoJson == [has |-> FALSE, objs |-> << >>]
extract_json_data(page) ==
    IF page.ok /\ page.blob = "ok"
    THEN [has |-> TRUE, objs |-> SelectToks(page.toks, JsonKinds)]
    ELSE NoJson

\* an audio URL https://traffic.omny.fm/d/clips/{org}/{show}/{clip}/audio.mp3
AudioUrl(org, show, clip) ==
    [has |-> TRUE, scheme |-> "https", hex |-> TRUE, org |-> org, show |-> show,
     clip |-> clip]
NoAudioUrl ==
    [has |-> FALSE, scheme |-> "", hex |-> FALSE, org |-> "", show |-> "", clip |-> ""]
\* the text of a CDN URL token, as it stands in the page
TextOf(t) ==
    [has |-> TRUE, scheme |-> t.scheme, hex |-> t.hex, org |-> t.org,
     show |-> t.show, clip |-> t.clip]

\* re.search(r'omnyStudio[^}]*orgId...', html): the configured organization ID,
\* else the default
OrgIdOf(page) ==
    LET cfg == SelectToks(page.toks, {"orgcfg"})
    IN  IF cfg # << >> THEN cfg[1].id ELSE DEFAULT_ORG_ID

\* DirectMatch with the scheme-less patterns tried before the https ones
DirectMatchBareFirst(page) ==
    LET cdn == SelectToks(page.toks, {"cdn"})
        P3 == SelectSeq(cdn, LAMBDA t : t.hex)
        m  == IF P3 # << >> THEN P3[1] ELSE cdn[1]
    IN  IF cdn = << >> THEN NoAudioUrl
        ELSE [TextOf(m) EXCEPT !.scheme = "https"]

\* audio_url_patterns, tried in order over the whole page; each is a leftmost
\* search.  1: https + three hex segments; 2: https + anything; 3: no scheme
\* needed, three hex segments; 4: no scheme needed, anything.
DirectMatch(page) ==
    LET cdn == SelectToks(page.toks, {"cdn"})
        P1 == SelectSeq(cdn, LAMBDA t : t.scheme = "https" /\ t.hex)
        P2 == SelectSeq(cdn, LAMBDA t : t.scheme = "https")
        P3 == SelectSeq(cdn, LAMBDA t : t.hex)
        m  == IF P1 # << >> THEN P1[1]
              ELSE IF P2 # << >> THEN P2[1]
              ELSE IF P3 # << >> THEN P3[1]
              ELSE cdn[1]
    IN  IF cdn = << >> THEN NoAudioUrl
        \* group(0) of patterns 1 and 2 starts with http and is returned as
        \* matched; that of patterns 3 and 4 gets 'https://' put in front
        ELSE [TextOf(m) EXCEPT !.scheme = "https"]

\* unique_uuids: the UUID tokens of the page, first occurrences in order,
\* without the organization ID and the build ID (compared in lower case)
CandidateUuids(page) ==
    LET org_id == OrgIdOf(page)
        unique == Dedupe(FindAllUuids(page.toks), {})
        builds == SelectToks(page.toks, {"build"})
        noOrg  == WithoutLower(unique, org_id)
    IN  IF builds # << >> THEN WithoutLower(noOrg, builds[1].id) ELSE noOrg

\* _find_omny_clip_reference(json_data) followed by the "showId" search in
\* str(omny_clip_ref): only a string holding "showId": "..." in double quotes
\* matches, str() of a dict being written with single quotes
ShowIdFromClipRef(json) ==
    LET refs == SelectToks(json.objs, {"clipref"})
    IN  IF json.has /\ refs # << >> /\ refs[1].typ = "str" THEN refs[1].show ELSE ""

\* a mining that takes the organisation for the show when there is no page
ShowIdFromProgramPageOrOrg(prog, org_id, unique_uuids) ==
    LET cfg == SelectToks(prog.toks, {"showcfg"})
    IN  IF ~prog.ok THEN org_id
        ELSE IF cfg # << >> THEN cfg[1].id
        ELSE ""

\* the show ID mined from the program page: its omnyStudio showId setting,
\* else its first UUID token that is not org_id and not among unique_uuids
ShowIdFromProgramPage(prog, org_id, unique_uuids) ==
    LET cfg == SelectToks(prog.toks, {"showcfg"})
        program_unique ==
            WithoutLower(Dedupe(FindAllUuids(prog.toks), {}), org_id)
        fresh == SelectSeq(program_unique,
                           LAMBDA u : u \notin Range(unique_uuids) /\ u # org_id)
    IN  IF ~prog.ok THEN ""
        ELSE IF cfg # << >> THEN cfg[1].id
        ELSE IF fresh # << >> THEN fresh[1]
        ELSE ""

\* lines 266-305: the show ID and whether the program page was fetched for it.
\* "" is None.  show is show_uuid_direct, cache the new value of self.show_id.
ResolveShowId(page, slug, cached, prog) ==
    IF cached # "" THEN [show |-> cached, cache |-> cached, fetched |-> FALSE]
    ELSE IF slug \in DOMAIN KNOWN_SHOW_IDS
      THEN [show |-> KNOWN_SHOW_IDS[slug], cache |-> KNOWN_SHOW_IDS[slug],
            fetched |-> FALSE]
    ELSE LET fromRef == ShowIdFromClipRef(extract_json_data(page))
             fromProg == ShowIdFromProgramPage(prog, OrgIdOf(page),
                                               CandidateUuids(page))
         IN  IF fromRef # ""
               THEN [show |-> fromRef, cache |-> fromRef, fetched |-> FALSE]
             ELSE [show |-> fromProg, cache |-> fromProg, fetched |-> TRUE]

\* lines 307-331: the URL put together from the candidate UUIDs; none when
\* there is no candidate, or a single one and no show ID
AssembleDirect(org_id, unique_uuids, show) ==
    LET others == SelectSeq(unique_uuids, LAMBDA u : u # show)
        clip == IF others # << >> THEN others[1] ELSE unique_uuids[Len(unique_uuids)]
    IN  IF Len(unique_uuids) = 0 THEN NoAudioUrl
        ELSE IF show # "" THEN AudioUrl(org_id, show, clip)
        ELSE IF Len(unique_uuids) >= 2 THEN AudioUrl(org_id, unique_uuids[1], clip)
        ELSE NoAudioUrl

\* the type collect_uuids_with_context gives a uuid object
UuidType(t) ==
    IF t.typ = "clip" THEN "clip"
    ELSE IF t.typ = "show" THEN "show"
    ELSE IF t.title = "text" THEN "clip"
    ELSE "unknown"

\* lines 333-467: the URL put together from the uuid objects of the blob
AssembleFromJson(org_id, json) ==
    LET objs == SelectToks(json.objs, {"juuid"})
        all_uuids == Dedupe(IdsOf(objs), {})
        \* the object that first carried each uuid decides its type
        First(u) == SelectSeq(objs, LAMBDA t : t.id = u)[1]
        titled == SelectSeq(objs, LAMBDA t : t.title # "none")
        clips == SelectSeq(all_uuids, LAMBDA u : UuidType(First(u)) = "clip")
        shows == SelectSeq(all_uuids, LAMBDA u : UuidType(First(u)) = "show")
        \* find_title_uuid, then the first uuid typed 'clip'
        clip1 == IF titled # << >> THEN titled[1].id
                 ELSE IF clips # << >> THEN clips[1] ELSE ""
        \* the typing loop: the first entry typed 'show'
        show1 == IF shows # << >> THEN shows[1] ELSE ""
        notClip == SelectSeq(all_uuids, LAMBDA u : u # clip1)
        show2 == IF clip1 # "" /\ show1 = "" /\ notClip # << >> THEN notClip[1]
                 ELSE show1
        n == Len(all_uuids)
        clip3 == IF clip1 # "" THEN clip1 ELSE IF n >= 1 THEN all_uuids[n] ELSE ""
        show3 == IF clip1 # "" THEN show2
                 ELSE IF n >= 3 THEN all_uuids[2]
                 ELSE IF n >= 1 THEN all_uuids[1]
                 ELSE ""
    IN  IF ~json.has \/ clip3 = "" THEN NoAudioUrl
        ELSE IF show3 # "" /\ show3 # clip3 THEN AudioUrl(org_id, show3, clip3)
        ELSE AudioUrl(org_id, clip3, clip3)

\* extract_audio_url_from_episode_page(html) on a scraper for slug whose cache
\* self.show_id holds cached; prog is what fetch_page(self.program_url)
\* returns if it is called.  The result: the URL returned, the new value of
\* the cache, the tier that produced the URL and whether the program page was
\* fetched.
extract_audio_url_from_episode_page(page, slug, cached, prog) ==
    LET direct == DirectMatch(page)
        org_id == OrgIdOf(page)
        unique_uuids == CandidateUuids(page)
        res == ResolveShowId(page, slug, cached, prog)
        tier2 == AssembleDirect(org_id, unique_uuids, res.show)
        tier3 == AssembleFromJson(org_id, extract_json_data(page))
    IN  IF direct.has
          THEN [url |-> direct, cache |-> cached, tier |-> "direct",
                fetched |-> FALSE]
        ELSE IF tier2.has
          THEN [url |-> tier2, cache |-> res.cache, tier |-> "uuids",
                fetched |-> res.fetched]
        ELSE [url |-> tier3, cache |-> res.cache,
              tier |-> IF tier3.has THEN "json" ELSE "none",
              fetched |-> res.fetched]

(***************************************************************************)
(* Episode discovery, dates and the cover image                            *)
(***************************************************************************)
\* one entry of episodes_data; airedAt is NoAired for an entry that has no
\* such key (the entries made from an episode page's markup), whose
\* description is the empty string
EpisodeData(title, url, aired) ==
    [title |-> title, url |-> url, airedAt |-> aired, description |-> ""]

\* the text of the text children of a sample rich-text description, joined
\* with single spaces
ChildrenText == "Hello world"

\* the 'description' of a candidate (line 140): the list
\* description.root.children of the object, the empty list when the object
\* has no description
ChildrenOf(t) == IF t.desc = "richtext" THEN "children" ELSE "nochildren"

\* parse_description(desc_obj): desc_obj is "mapping" (a dict with a
\* 'children' list of text children), "children" (such a list itself),
\* "nochildren" (an empty list) or the empty string; a dict gives the joined
\* text, a string itself, anything else the empty string
parse_description(desc_obj) ==
    IF desc_obj = "mapping" THEN ChildrenText
    ELSE IF desc_obj = "" THEN desc_obj
    ELSE ""

\* an entry that loses the object's title
EpisodeFromObjectUntitled(t, slug) ==
    [EpisodeData("Untitled",
                 IF t.id # "" THEN EpisodeUrl(slug, t.id) ELSE ProgramUrl(slug),
                 t.aired) EXCEPT !.description = ChildrenOf(t)]

\* find_episodes on one episode-shaped object: its URL is built from its slug,
\* or is the program URL when the slug is empty
EpisodeFromObject(t, slug) ==
    [EpisodeData(t.title,
                 IF t.id # "" THEN EpisodeUrl(slug, t.id) ELSE ProgramUrl(slug),
                 t.aired) EXCEPT !.description = ChildrenOf(t)]

RECURSIVE EpisodesFromObjects(_, _)
EpisodesFromObjects(objs, slug) ==
    IF objs = << >> THEN << >>
    ELSE << EpisodeFromObject(Head(objs), slug) >>
            \o EpisodesFromObjects(Tail(objs), slug)

\* find_episodes raises AttributeError at
\* data.get('description', {}).get('root', {}) when the description of an
\* episode-shaped object is no mapping
extract_episodes_raises(json) ==
    \E i \in 1 .. Len(json.objs) :
        json.objs[i].k = "episode" /\ json.objs[i].desc \in {"null", "string", "list"}

\* extract_episodes_from_json(json_data) of a scraper for slug
extract_episodes_from_json(json, slug) ==
    EpisodesFromObjects(SelectToks(json.objs, {"episode"}), slug)

RECURSIVE LinksOf(_, _)
LinksOf(anchors, slug) ==
    IF anchors = << >> THEN << >>
    ELSE << EpisodeUrl(slug, Head(anchors).id) >> \o LinksOf(Tail(anchors), slug)

\* a scan that takes every anchor, whatever its href
extract_every_link_from_html(page, slug) ==
    Dedupe(LinksOf(SelectToks(page.toks, {"anchor"}), slug), {})

\* extract_episode_links_from_html(html): the targets of the anchors whose
\* href holds '/episodes/' and the program slug, each once, in page order
extract_episode_links_from_html(page, slug) ==
    Dedupe(LinksOf(SelectSeq(SelectToks(page.toks, {"anchor"}),
                             LAMBDA t : t.form = "own"), slug), {})

\* parse_date raises TypeError at datetime.strptime when date_str is no
\* string (the AttributeError of date_str.replace is caught, this is not)
parse_date_raises(a) == a.form = "number"

\* parse_date(date_str)
parse_date(a) ==
    CASE a.form = "z" -> DateOf(a.t, 0)
      [] a.form = "offset" -> DateOf(a.t, a.off)
      [] a.form = "naive" -> DateOf(a.t, 0)
      [] a.form = "dateonly" -> DateOf(a.t, 0)
      [] OTHER -> NoDate

\* the ordinal date in an episode slug, as parse_date_from_url reads it:
\* "ep-1st-jan" stands for ...-1st-january-1970 (a calendar date),
\* "ep-30th-feb" for ...-30th-february-1970 (none)
parse_date_from_url(url) ==
    IF url.ep = "ep-1st-jan" THEN DateOf(0, 0) ELSE NoDate

\* a resolution that reads the URL before airedAt
ResolveDateUrlFirst(ep, now) ==
    LET fromUrl == parse_date_from_url(ep.url)
        fromAired == IF fromUrl.has THEN fromUrl
                     ELSE IF ep.airedAt.form # "" THEN parse_date(ep.airedAt)
                     ELSE NoDate
    IN  IF fromAired.has THEN fromAired ELSE DateOf(now, 0)

\* a resolution that stops after the URL
ResolveDateWithoutNow(ep, now) ==
    LET fromAired == IF ep.airedAt.form # "" THEN parse_date(ep.airedAt) ELSE NoDate
    IN  IF fromAired.has THEN fromAired ELSE parse_date_from_url(ep.url)

\* lines 1049-1061: the record's date, now being datetime.now(timezone.utc)
ResolveDate(ep, now) ==
    LET fromAired == IF ep.airedAt.form # "" THEN parse_date(ep.airedAt) ELSE NoDate
        fromUrl == IF fromAired.has THEN fromAired ELSE parse_date_from_url(ep.url)
    IN  IF fromUrl.has THEN fromUrl ELSE DateOf(now, 0)

\* an image URL; has = FALSE is None
NoImage == [has |-> FALSE, name |-> "", size |-> ""]
ImageUrl(t) == [has |-> TRUE, name |-> t.id, size |-> t.size]

HighSizes == {"2000", "1200", "800"}

\* the first token of a list that passes Test, as an image URL
FirstImage(imgs) == IF imgs = << >> THEN NoImage ELSE ImageUrl(imgs[1])

\* lines 679-705: the image found through the blob: that of the programme
\* object when it names an Image object that has a preferred size, else the
\* first preferred size of any Image object unless it is a generic image
ImageFromJson(json) ==
    LET sized == SelectSeq(SelectToks(json.objs, {"img"}),
                           LAMBDA t : t.form = "sizes" /\ t.size \in HighSizes)
        progs == SelectToks(json.objs, {"programme"})
        named == IF progs = << >> \/ progs[1].show = "" THEN << >>
                 ELSE SelectSeq(sized, LAMBDA t : t.id = progs[1].show)
        any == SelectSeq(sized, LAMBDA t : TRUE)
    IN  IF ~json.has THEN NoImage
        ELSE IF named # << >> THEN ImageUrl(named[1])
        ELSE IF any # << >> /\ ~any[1].generic THEN ImageUrl(any[1])
        ELSE NoImage

\* lines 707-814: the regular-expression scan of the markup.  First pass: the
\* patterns in order (quoted "url" values of size 2000, 1200, 800, then any
\* URL of size 2000, 1200, 800), the first non-generic match of the first
\* pattern that has one.  Second pass: the first non-generic quoted "url"
\* value, else the first non-generic URL, that is no 320-pixel image.
ImageFromMarkup(page) ==
    LET imgs == SelectSeq(SelectToks(page.toks, {"img"}), LAMBDA t : ~t.generic)
        Quoted(t) == t.form \in {"sizes", "json"}
        q2000 == SelectSeq(imgs, LAMBDA t : Quoted(t) /\ t.size = "2000")
        q1200 == SelectSeq(imgs, LAMBDA t : Quoted(t) /\ t.size = "1200")
        q800  == SelectSeq(imgs, LAMBDA t : Quoted(t) /\ t.size = "800")
        b2000 == SelectSeq(imgs, LAMBDA t : t.size = "2000")
        b1200 == SelectSeq(imgs, LAMBDA t : t.size = "1200")
        b800  == SelectSeq(imgs, LAMBDA t : t.size = "800")
        fq    == SelectSeq(imgs, LAMBDA t : Quoted(t) /\ t.size # "320")
        fb    == SelectSeq(imgs, LAMBDA t : t.size # "320")
    IN  IF q2000 # << >> THEN ImageUrl(q2000[1])
        ELSE IF q1200 # << >> THEN ImageUrl(q1200[1])
        ELSE IF q800 # << >> THEN ImageUrl(q800[1])
        ELSE IF b2000 # << >> THEN ImageUrl(b2000[1])
        ELSE IF b1200 # << >> THEN ImageUrl(b1200[1])
        ELSE IF b800 # << >> THEN ImageUrl(b800[1])
        ELSE IF fq # << >> THEN ImageUrl(fq[1])
        ELSE FirstImage(fb)

\* extract_programme_image without its override lookup
extract_programme_image_heuristic(page, slug) ==
    LET fromJson == ImageFromJson(extract_json_data(page))
    IN  IF fromJson.has THEN fromJson ELSE ImageFromMarkup(page)

\* an extraction that goes straight to the page
extract_programme_image_from_page(page, slug) ==
    LET fromJson == ImageFromJson(extract_json_data(page))
    IN  IF fromJson.has THEN fromJson ELSE ImageFromMarkup(page)

\* extract_programme_image(html) of a scraper for slug
extract_programme_image(page, slug) ==
    IF slug \in DOMAIN KNOWN_PROGRAMME_IMAGES THEN KNOWN_PROGRAMME_IMAGES[slug]
    ELSE extract_programme_image_heuristic(page, slug)

\* get_sort_key(ep) of get_episodes: the timestamp, 0 for no date
get_sort_key(ep) == IF ep.date.has THEN ep.date.t ELSE 0

(***************************************************************************)
(* Python's sorted(xs, key=Key, reverse=True): stable, so that elements    *)
(* with equal keys keep the order they had in xs.                          *)
(***************************************************************************)
\* one insertion into a list of <<key, element>> pairs held in descending key
\* order: after every pair whose key is not smaller
RECURSIVE InsertDesc(_, _)
InsertDesc(s, p) ==
    IF s = << >> THEN << p >>
    ELSE IF Head(s)[1] < p[1] THEN << p >> \o s
    ELSE << Head(s) >> \o InsertDesc(Tail(s), p)

RECURSIVE SortPairsDesc(_, _)
SortPairsDesc(acc, ps) ==
    IF ps = << >> THEN acc
    ELSE SortPairsDesc(InsertDesc(acc, Head(ps)), Tail(ps))

SortedDesc(xs, Key(_)) ==
    LET ps == [i \in 1 .. Len(xs) |-> << Key(xs[i]), xs[i] >>]
        qs == SortPairsDesc(<< >>, ps)
    IN  [i \in 1 .. Len(xs) |-> qs[i][2]]

RECURSIVE Reverse(_)
Reverse(s) == IF s = << >> THEN << >> ELSE Reverse(Tail(s)) \o << Head(s) >>

(***************************************************************************)
(* RSSFeedGenerator.generate_feed                                          *)
(***************************************************************************)
\* float('-inf'): below every timestamp
NegInf == (CHOOSE m \in Ticks : \A t \in Ticks : m <= t) - 1

\* get_sort_timestamp(ep): date.timestamp(), or -inf for a record with no date
get_sort_timestamp(ep) == IF ep.date.has THEN ep.date.t ELSE NegInf

\* the text of <pubDate>: the datetime's own wall-clock fields to the second,
\* and its UTC offset (RFC 822 carries no sub-second part)
NoPubDate == [has |-> FALSE, sec |-> 0, off |-> 0]
formatRFC822(d) ==
    [has |-> TRUE, sec |-> (d.t + d.off * Res) \div Res, off |-> d.off]

\* an item that always has an enclosure
FeedItemAlwaysEnclosure(ep) ==
    [title       |-> ep.title,
     link        |-> ep.url,
     pubDate     |-> IF ep.date.has THEN formatRFC822(ep.date) ELSE NoPubDate,
     hasDesc     |-> ep.description # "",
     description |-> ep.description,
     hasEncl     |-> TRUE,
     enclosure   |-> ep.audio_url,
     guid        |-> ep.url]

\* one <item>: fe.title, fe.link, fe.pubDate (absent when the date is None,
\* pubDate(None) being feedgen's getter), fe.description only if non-empty,
\* fe.enclosure only if episode.get('audio_url'), fe.id(episode['url'])
FeedItem(ep) ==
    [title       |-> ep.title,
     link        |-> ep.url,
     pubDate     |-> IF ep.date.has THEN formatRFC822(ep.date) ELSE NoPubDate,
     hasDesc     |-> ep.description # "",
     description |-> ep.description,
     hasEncl     |-> ep.audio_url.has,
     enclosure   |-> ep.audio_url,
     guid        |-> ep.url]

RECURSIVE ItemsOf(_)
ItemsOf(eps) ==
    IF eps = << >> THEN << >> ELSE << FeedItem(Head(eps)) >> \o ItemsOf(Tail(eps))

\* the entries as fg.rss_str serialises them after add_entry was called once per
\* episode: feedgen stores a new entry at the front (its default) or at the back
AddEntries(eps, order) ==
    IF order = "prepend" THEN Reverse(ItemsOf(eps)) ELSE ItemsOf(eps)

\* get_item_timestamp(item): time.mktime(fields) - offset for a pubDate, where
\* mktime reads the fields in the machine's local zone tz; 0 with no pubDate
get_item_timestamp(item, tz) ==
    IF item.pubDate.has THEN (item.pubDate.sec - tz) - item.pubDate.off ELSE 0

\* the items of the written file
generate_feed(eps, order, tz) ==
    LET sorted_episodes == SortedDesc(eps, get_sort_timestamp)
        items == AddEntries(sorted_episodes, order)
        ItemKey(it) == get_item_timestamp(it, tz)
    IN  SortedDesc(items, ItemKey)

(***************************************************************************)
(* SpecFeed: generate_feed applied to any list of episode records          *)
(***************************************************************************)
SampleDates == {NoDate} \cup {DateOf(t, o) : t \in Ticks, o \in Offsets}

EpisodeNames == << "e1", "e2", "e3", "e4", "e5" >>

\* the i-th record of an input list: its URL is its identity
SampleEpisode(i, d) ==
    [title |-> "t", url |-> EpisodeUrl("p", EpisodeNames[i]), date |-> d,
     audio_url |-> NoAudioUrl, description |-> ""]

\* the values of the variables a specification does not use
NoCall == [url |-> NoAudioUrl, tier |-> "", fetched |-> FALSE]
ScraperIdle == program_slug = "" /\ show_id = ""
AudioIdle == html = NoPage /\ program_html = NoPage /\ audio = NoCall
FeedIdle == feedIn = << >> /\ feedOut = << >> /\ feedPc = "idle"
EnvIdle == entryOrder = "prepend" /\ localZone = 0
FileIdle == pretty_xml = << >> /\ content = << >>
NotCalled == [called |-> FALSE, list |-> << >>]
JsonIdle == page_scripts = << >> /\ json_data = << >> /\ found = NotCalled
NoSite == [program |-> NoPage, eps |-> [e \in EpisodeSlugs |-> NoPage]]
MainIdle ==
    /\ programs = << >> /\ progIdx = 0 /\ pc = "idle" /\ files = {}
    /\ started = << >>
    /\ site = NoSite /\ requests = << >> /\ clock = 0
EpisodesIdle ==
    /\ program_image = NoImage /\ episode_links = << >> /\ linkIdx = 0
    /\ episodes_data = << >> /\ epIdx = 0 /\ episodes = << >>

FeedInit ==
    /\ \E n \in 0 .. MaxEps :
         \E ds \in [1 .. n -> SampleDates] :
            feedIn = [i \in 1 .. n |-> SampleEpisode(i, ds[i])]
    /\ feedOut = << >>
    /\ feedPc = "ready"
    /\ entryOrder \in EntryOrders
    /\ localZone \in LocalZones
    /\ ScraperIdle /\ AudioIdle /\ MainIdle /\ EpisodesIdle /\ FileIdle /\ JsonIdle

GenerateFeed ==
    /\ feedPc = "ready"
    /\ feedOut' = generate_feed(feedIn, entryOrder, localZone)
    /\ feedPc' = "written"
    /\ UNCHANGED << started, fileVars, jsonVars,
                    feedIn, envVars, scraperVars, audioVars, mainVars, siteVars,
                    episodeVars >>

FeedNext == GenerateFeed

SpecFeed == FeedInit /\ [][FeedNext]_vars

(***************************************************************************)
(* SpecAudio: one scraper, extract_audio_url_from_episode_page called any  *)
(* number of times on any episode pages                                    *)
(***************************************************************************)
\* program slugs: one of the override table, one outside it
AudioSlugs == {"jack-off", "other-show"}

\* the tokens sample episode pages are made of
EpisodeTokens ==
    { Uuid("a"), Uuid("b"), Uuid("A"), Uuid("k1"), Uuid("o"),
      OrgCfg("c"), Build("b"),
      Cdn("https", TRUE, "o", "b", "a"), Cdn("https", TRUE, "c", "k1", "b"),
      Cdn("", TRUE, "o", "a", "b"), Cdn("https", FALSE, "o", "b", "a"),
      JUuid("a", "", "text"), JUuid("o", "", "none"), JUuid("b", "show", "none"),
      ClipRef("str", "b"), ClipRef("dict", "b") }

\* a page made of the given tokens: it holds a blob when a token lives in one
PageOf(toks) ==
    Page(IF \E i \in 1 .. Len(toks) : toks[i].k \in JsonKinds THEN "ok" ELSE "none",
         toks)

EpisodePages ==
    { PageOf(<< >>) } \cup { PageOf(<< t >>) : t \in EpisodeTokens }
        \cup { PageOf(<< t, u >>) : t \in EpisodeTokens, u \in EpisodeTokens }

\* what the secondary fetch of the program page can return
ProgramFetches ==
    { NoPage, PageOf(<< >>), PageOf(<< ShowCfg("b") >>), PageOf(<< Uuid("a") >>),
      PageOf(<< Uuid("A"), Uuid("b") >>), PageOf(<< Uuid("o"), Uuid("c") >>) }

AudioInit ==
    /\ program_slug \in AudioSlugs
    /\ show_id = ""
    /\ AudioIdle /\ FeedIdle /\ EnvIdle /\ MainIdle /\ EpisodesIdle /\ FileIdle /\ JsonIdle

\* the page is any sample page; the program page is drawn only when the
\* call fetches it
ExtractAudio ==
    \E page \in EpisodePages :
        \E prog \in IF extract_audio_url_from_episode_page(
                          page, program_slug, show_id, NoPage).fetched
                    THEN ProgramFetches ELSE {NoPage} :
            LET r == extract_audio_url_from_episode_page(
                         page, program_slug, show_id, prog)
            IN  /\ html' = page
                /\ program_html' = prog
                /\ audio' = [url |-> r.url, tier |-> r.tier, fetched |-> r.fetched]
                /\ show_id' = r.cache
                /\ UNCHANGED << started, fileVars, jsonVars,
                                program_slug, feedVars, envVars, mainVars,
                                siteVars, episodeVars >>

AudioNext == ExtractAudio

SpecAudio == AudioInit /\ [][AudioNext]_vars

(***************************************************************************)
(* Spec: main() over a list of programs.  For each program a scraper is    *)
(* made, get_episodes runs (one action per page it requests, each with the *)
(* code that follows the request), and the feed is written.                *)
(***************************************************************************)
\* the lists of programs main() is run on: programs of both override tables,
\* of the show-ID table alone and of neither
ProgramLists ==
    { << "jack-off" >>, << "sunset-with-tangela", "other-show" >> }

\* sample episode-shaped objects of a blob
EpisodeObjects ==
    { Episode("ep-a", "T1", Aired("z", 1, 0)),
      Episode("ep-b", "T2", Aired("offset", 0, 1)),
      Episode("ep-1st-jan", "T3", Aired("naive", 2, 0)),
      Episode("", "T4", Aired("garbage", 0, 0)),
      Episode("ep-1st-jan", "T5", NoAired) }

\* sample episode-shaped objects with a description, and malformed ones
DescribedObjects ==
    { EpisodeDesc("ep-a", "T9", Aired("z", 1, 0), "richtext"),
      EpisodeDesc("ep-a", "T10", Aired("z", 1, 0), "null"),
      EpisodeDesc("ep-b", "T11", Aired("dateonly", 0, 0), "string"),
      Episode("ep-b", "T12", Aired("number", 0, 0)),
      Episode("ep-30th-feb", "", Aired("garbage", 0, 0)) }

\* sample anchors
Anchors == { Anchor("own", "ep-a"), Anchor("own", "ep-b"), Anchor("foreign", "ep-a") }

\* sample program pages: a blob with one or two episode-shaped objects; a
\* blob with none, or no usable blob, and up to two anchors; pages with
\* images; a blob with an episode next to an anchor
ProgramPages ==
    { Page("ok", << e >>) : e \in EpisodeObjects \cup DescribedObjects }
      \cup { Page("ok", << e, f >>) : e \in EpisodeObjects, f \in EpisodeObjects }
      \cup { Page(b, << >>) : b \in {"none", "bad"} }
      \cup { Page(b, << x >>) : b \in {"none", "bad"}, x \in Anchors }
      \cup { Page("none", << x, y >>) : x \in Anchors, y \in Anchors }
      \cup { Page("ok", << Programme("cover"), Img("sizes", "1200", FALSE, "cover"),
                          Episode("ep-a", "T1", Aired("z", 1, 0)) >>),
             Page("ok", << Programme(""), Uuid("b"), Anchor("own", "ep-a") >>),
             Page("ok", << Episode("ep-a", "T1", Aired("z", 1, 0)),
                           Anchor("own", "ep-b") >>),
             Page("none", << Img("bare", "2000", FALSE, "wide"),
                            Img("json", "800", FALSE, "small"),
                            Anchor("own", "ep-b") >>) }

\* sample pages of the episode with slug e: nothing of interest, a CDN URL, a
\* blob with the episode's own object and two UUIDs, a blob with two objects, a
\* blob with a malformed object
EpisodePagesOf(e) ==
    { Page("none", << >>),
      Page("none", << Cdn("https", TRUE, "o", "b", "a") >>),
      Page("ok", << Episode(e, "T6", Aired("z", -1, 0)), Uuid("a"), Uuid("c") >>),
      Page("ok", << Episode(e, "T7", NoAired),
                    Episode("ep-b", "T8", Aired("dateonly", 2, 0)) >>),
      Page("ok", << EpisodeDesc(e, "T13", Aired("z", 0, 0), "list") >>) }

\* the episode slugs a page refers to
SlugsIn(page) ==
    { page.toks[i].id : i \in { j \in 1 .. Len(page.toks) :
                                  page.toks[j].k \in {"episode", "anchor"} } }
        \cap EpisodeSlugs

\* the sample sites: a program page, a page for each episode it refers to,
\* and no page (404) for any other episode
Sites ==
    UNION { { [program |-> pp, eps |-> eps] :
                eps \in { f \in [EpisodeSlugs -> UNION { EpisodePagesOf(e) : e \in EpisodeSlugs }
                                                  \cup {NoPage}] :
                            \A e \in EpisodeSlugs :
                                IF e \in SlugsIn(pp) THEN f[e] \in EpisodePagesOf(e)
                                ELSE f[e] = NoPage } } :
            pp \in ProgramPages }

\* get_episodes can be made to raise by a page
RaisingPage(page) ==
    \/ extract_episodes_raises(extract_json_data(page))
    \/ \E i \in 1 .. Len(page.toks) :
          page.toks[i].k = "episode" /\ parse_date_raises(page.toks[i].aired)

\* some sample sites none of whose pages can make get_episodes raise: the
\* program page has one object, two objects, nothing, or anchors
WellFormedSites ==
    { st \in Sites :
        /\ \A page \in {st.program} \cup { st.eps[e] : e \in EpisodeSlugs } :
              ~RaisingPage(page)
        /\ st.program \in
              { Page("ok", << Episode("ep-a", "T1", Aired("z", 1, 0)) >>),
                Page("ok", << Episode("ep-b", "T2", Aired("offset", 0, 1)),
                              Episode("ep-1st-jan", "T5", NoAired) >>),
                Page("none", << >>),
                Page("bad", << Anchor("foreign", "ep-a") >>),
                Page("none", << Anchor("own", "ep-a"), Anchor("own", "ep-b") >>) } }

\* a request made and whether it gave a page
Request(url, ok) == [url |-> url, ok |-> ok]

\* the page the site serves at a URL
SitePage(st, url) == IF url.kind = "program" THEN st.program ELSE st.eps[url.ep]

\* title_elem.get_text() of the markup fallback: the page's heading, which no
\* sample page has
TitleOf(page) == "Untitled Episode"

Init ==
    /\ programs \in ProgramLists
    /\ progIdx = 1
    /\ pc = "start"
    /\ files = {}
    /\ started = << >>
    /\ site = NoSite /\ requests = << >> /\ clock = 0
    /\ ScraperIdle /\ EpisodesIdle /\ AudioIdle /\ FeedIdle /\ FileIdle /\ JsonIdle
    /\ entryOrder \in EntryOrders
    /\ localZone \in LocalZones

\* a scraper that takes over the cache of the one before it
NewScraperKeepingCache(slug) == [program_slug |-> slug, show_id |-> show_id]

\* FBIRadioScraper(program_slug): a scraper with an empty show-ID cache
NewScraper(slug) == [program_slug |-> slug, show_id |-> ""]

\* scraper = FBIRadioScraper(program_slug); get_episodes: the program page
\* cannot be fetched, ([], slug, None) is returned
FetchProgramFails ==
    /\ pc = "start"
    /\ program_slug' = NewScraper(programs[progIdx]).program_slug
    /\ show_id' = NewScraper(programs[progIdx]).show_id
    /\ site' = NoSite
    /\ requests' = << Request(ProgramUrl(programs[progIdx]), FALSE) >>
    /\ program_image' = NoImage
    /\ episode_links' = << >> /\ linkIdx' = 0
    /\ episodes_data' = << >> /\ epIdx' = 0
    /\ episodes' = << >>
    /\ pc' = "returned"
    /\ started' = Append(started, programs[progIdx])
    /\ UNCHANGED << fileVars, jsonVars, programs, progIdx, files, clock, audioVars, feedVars,
                    envVars >>

\* a get_episodes that scans the anchors whatever the blob gave
AlwaysAnchorScan(data) == TRUE

\* line 998, if not episodes_data: the anchors are scanned when the blob of
\* the program page gave no episode
NeedsAnchorScan(data) == data = << >>

\* scraper = FBIRadioScraper(program_slug); get_episodes down to the anchor
\* scan (lines 976-999): the program page is fetched, the cover image and the
\* episodes of the blob are extracted, and the anchors if there are none; an
\* exception of extract_episodes_from_json ends the run
FetchProgramPageOf(sites) ==
    /\ pc = "start"
    /\ \E st \in sites :
        LET slug == programs[progIdx]
            json == extract_json_data(st.program)
            raises == json.has /\ extract_episodes_raises(json)
            data == IF json.has /\ ~raises
                    THEN extract_episodes_from_json(json, slug) ELSE << >>
            links == IF NeedsAnchorScan(data) /\ ~raises
                     THEN extract_episode_links_from_html(st.program, slug) ELSE << >>
        IN  /\ program_slug' = NewScraper(slug).program_slug
            /\ show_id' = NewScraper(slug).show_id
            /\ site' = st
            /\ requests' = << Request(ProgramUrl(slug), TRUE) >>
            /\ program_image' = extract_programme_image(st.program, slug)
            /\ episodes_data' = data
            /\ episode_links' = links
            /\ linkIdx' = 1 /\ epIdx' = 1
            /\ episodes' = << >>
            /\ pc' = IF raises THEN "crashed"
                     ELSE IF links # << >> THEN "discover" ELSE "process"
    /\ started' = Append(started, programs[progIdx])
    /\ UNCHANGED << fileVars, jsonVars, programs, progIdx, files, clock, audioVars, feedVars,
                    envVars >>

FetchProgramPage == FetchProgramPageOf(Sites)

\* one round of the loop over episode_links (lines 1001-1044): the episode
\* page is fetched; a page that cannot be fetched is passed over; else the
\* episodes of its blob are added, or one entry made from its markup; an
\* exception of extract_episodes_from_json ends the run
DiscoverEpisode ==
    /\ pc = "discover"
    /\ \E ok \in BOOLEAN :
        LET url == episode_links[linkIdx]
            page == IF ok THEN SitePage(site, url) ELSE NoPage
            json == extract_json_data(page)
            raises == json.has /\ extract_episodes_raises(json)
            list == IF json.has /\ ~raises
                    THEN extract_episodes_from_json(json, program_slug) ELSE << >>
        IN  /\ requests' = Append(requests, Request(url, page.ok))
            /\ episodes_data' =
                 IF ~page.ok \/ raises THEN episodes_data
                 ELSE IF list # << >> THEN episodes_data \o list
                 ELSE Append(episodes_data, EpisodeData(TitleOf(page), url, NoAired))
            /\ linkIdx' = IF raises THEN linkIdx ELSE linkIdx + 1
            /\ pc' = IF raises THEN "crashed"
                     ELSE IF linkIdx = Len(episode_links) THEN "process"
                     ELSE "discover"
    /\ UNCHANGED << started, fileVars, jsonVars,
                    programs, progIdx, files, site, clock, scraperVars, program_image,
                    episode_links, epIdx, episodes, audioVars, feedVars, envVars >>

\* what fetching the page of an episode and locating its audio gives, the
\* fetch succeeding or not (ok), and the secondary fetch of the program
\* page, if made, succeeding or not (ok2)
LocateAudio(url, ok, ok2) ==
    LET page == IF ok THEN SitePage(site, url) ELSE NoPage
        prog == IF ok2 THEN site.program ELSE NoPage
    IN  IF page.ok
        THEN [called |-> TRUE, page |-> page, prog |-> prog,
              r |-> extract_audio_url_from_episode_page(page, program_slug, show_id, prog)]
        ELSE [called |-> FALSE, page |-> page, prog |-> NoPage,
              r |-> [url |-> NoAudioUrl, cache |-> show_id, tier |-> "", fetched |-> FALSE]]

\* one round of the loop over episodes_data (lines 1048-1079): the date is
\* resolved, the episode page fetched and its audio located, the record added
ProcessEpisode ==
    /\ pc = "process"
    /\ epIdx <= Len(episodes_data)
    /\ ~parse_date_raises(episodes_data[epIdx].airedAt)
    /\ LET ep == episodes_data[epIdx]
       IN \E ok \in BOOLEAN, ok2 \in BOOLEAN, now \in NowTicks :
            LET a == LocateAudio(ep.url, ok, ok2)
                date == ResolveDate(ep, now)
                usesNow == ~ResolveDate(ep, 0).has \/ ResolveDate(ep, 0) # ResolveDate(ep, 1)
            IN  /\ now >= clock
                /\ usesNow \/ now = IF clock = 0 THEN 1 ELSE clock
                /\ a.r.fetched \/ ok2
                /\ clock' = IF usesNow THEN now ELSE clock
                /\ requests' = requests \o << Request(ep.url, a.page.ok) >>
                                 \o IF a.r.fetched
                                    THEN << Request(ProgramUrl(program_slug), a.prog.ok) >>
                                    ELSE << >>
                /\ show_id' = a.r.cache
                /\ episodes' = Append(episodes,
                                  [title |-> ep.title, url |-> ep.url,
                                   audio_url |-> a.r.url, date |-> date,
                                   description |->
                                       parse_description(ep.description)])
                /\ IF a.called
                   THEN /\ html' = a.page
                        /\ program_html' = IF a.r.fetched THEN a.prog ELSE NoPage
                        /\ audio' = [url |-> a.r.url, tier |-> a.r.tier,
                                     fetched |-> a.r.fetched]
                   ELSE UNCHANGED audioVars
    /\ epIdx' = epIdx + 1
    /\ UNCHANGED << started, fileVars, jsonVars,
                    programs, progIdx, pc, files, site, program_slug, program_image,
                    episode_links, linkIdx, episodes_data, feedVars, envVars >>

\* the same round when parse_date raises (line 1053): nothing catches the
\* exception, in get_episodes or in main, and the run ends
ProcessEpisodeRaises ==
    /\ pc = "process"
    /\ epIdx <= Len(episodes_data)
    /\ parse_date_raises(episodes_data[epIdx].airedAt)
    /\ pc' = "crashed"
    /\ UNCHANGED << started, fileVars, jsonVars, programs, progIdx, files, siteVars,
                    scraperVars, episodeVars, audioVars, feedVars, envVars >>

\* the end of get_episodes (lines 1081-1105): the dated records newest first,
\* then the undated ones
ReturnEpisodes ==
    /\ pc = "process"
    /\ epIdx > Len(episodes_data)
    /\ episodes' = SortedDesc(SelectSeq(episodes, LAMBDA e : e.date.has), get_sort_key)
                     \o SelectSeq(episodes, LAMBDA e : ~e.date.has)
    /\ pc' = "returned"
    /\ UNCHANGED << started, fileVars, jsonVars,
                    programs, progIdx, files, siteVars, scraperVars, program_image,
                    episode_links, linkIdx, episodes_data, epIdx, audioVars, feedVars,
                    envVars >>

\* main(): no episodes, the program is skipped
SkipProgram ==
    /\ pc = "returned"
    /\ episodes = << >>
    /\ pc' = "skipped"
    /\ UNCHANGED << started, fileVars, jsonVars,
                    programs, progIdx, files, siteVars, scraperVars, episodeVars,
                    audioVars, feedVars, envVars >>

\* main(): generate_feed writes the program's file
WriteFeed ==
    /\ pc = "returned"
    /\ episodes # << >>
    /\ feedIn' = episodes
    /\ feedOut' = generate_feed(episodes, entryOrder, localZone)
    /\ feedPc' = "written"
    /\ files' = files \cup {program_slug}
    /\ pc' = "written"
    /\ UNCHANGED << started, fileVars, jsonVars,
                    programs, progIdx, siteVars, scraperVars, episodeVars, audioVars,
                    envVars >>

\* a loop that ends at the first program without episodes
AfterProgramStopOnSkip(i, progs) ==
    IF i = Len(progs) \/ pc = "skipped" THEN "done" ELSE "start"

\* for program_slug, program_name in programs: where the run stands after
\* the round for programs[i]
AfterProgram(i, progs) == IF i = Len(progs) THEN "done" ELSE "start"

\* a loop that goes on to the next program from the middle of get_episodes
RoundOverEarly(at) == at \in {"process", "skipped", "written"}

\* the body of the loop over the programs has reached its end: the continue
\* of line 1278 or the end of generate_feed
RoundOver(at) == at \in {"skipped", "written"}

\* main(): the next round of the loop over the programs, or its end; the
\* locals of the round that ended are gone, the scraper stays until the next
\* one is made
NextProgram ==
    /\ RoundOver(pc)
    /\ progIdx' = progIdx + 1
    /\ pc' = AfterProgram(progIdx, programs)
    /\ site' = NoSite /\ requests' = << >>
    /\ program_image' = NoImage /\ episode_links' = << >> /\ linkIdx' = 0
    /\ episodes_data' = << >> /\ epIdx' = 0 /\ episodes' = << >>
    /\ html' = NoPage /\ program_html' = NoPage /\ audio' = NoCall
    /\ feedIn' = << >> /\ feedOut' = << >> /\ feedPc' = "idle"
    /\ UNCHANGED << started, fileVars, jsonVars, programs, files, clock, scraperVars, envVars >>

Next ==
    \/ FetchProgramFails
    \/ FetchProgramPage
    \/ DiscoverEpisode
    \/ ProcessEpisode
    \/ ProcessEpisodeRaises
    \/ ReturnEpisodes
    \/ SkipProgram
    \/ WriteFeed
    \/ NextProgram

Spec == Init /\ [][Next]_vars

(***************************************************************************)
(* SpecRun: main() on sites whose data is well formed, any request failing *)
(* or not.  The program is sequential and every request ends (fetch_page   *)
(* sets a timeout), so the run does not stay for ever at a statement it    *)
(* can leave.  Every step of RunNext changes the position of the run      *)
(* (RunNextAdvances) and one is possible at every position but the end of  *)
(* main(), where alone the run has no next state, so weak fairness of      *)
(* RunNext is weak fairness of a change of position; it is stated on the   *)
(* position because its ENABLED does not depend on the pages.              *)
(***************************************************************************)
FetchWellFormedProgramPage == FetchProgramPageOf(WellFormedSites)

RunNext ==
    \/ FetchProgramFails
    \/ FetchWellFormedProgramPage
    \/ DiscoverEpisode
    \/ ProcessEpisode
    \/ ReturnEpisodes
    \/ SkipProgram
    \/ WriteFeed
    \/ NextProgram

\* where the run stands: the statement main() is at and its loop counters
Position == << pc, progIdx, linkIdx, epIdx >>

\* the statements of main() and get_episodes a run can be at
RunPcs == {"start", "discover", "process", "returned", "skipped", "written", "done"}

\* the run moves on from a statement that is not the end of main()
Advances ==
    /\ pc \in RunPcs \ {"done"}
    /\ pc' \in RunPcs
    /\ progIdx' \in 1 .. Len(programs) + 1
    /\ linkIdx' \in 0 .. Len(episode_links) + 1
    /\ epIdx' \in 0 .. Len(episodes_data) + 1
    /\ Position' # Position

SpecRun == Init /\ [][RunNext]_vars /\ WF_Position(Advances)

\* every step of the run is a change of position
RunNextAdvances == [][Advances]_vars

(***************************************************************************)
(* SpecWrite: the end of generate_feed (lines 1241-1253), which writes the *)
(* pretty-printed document pretty_xml to the file.  A document is the list *)
(* of its lines, pretty_xml.decode('utf-8').split('\n'); the lines hold no *)
(* line feed, so that '\n'.join(...) followed by .split('\n') gives the    *)
(* joined lines back.                                                      *)
(***************************************************************************)
MaxLines == 4

\* sample lines: the XML declaration, the opening RSS element, an indented
\* element, an empty line and a line of blanks
SampleLines == {"<?xml?>", "<rss>", "  <item/>", "", "  "}

\* line.strip()
Strip(line) ==
    CASE line = "  <item/>" -> "<item/>"
      [] line = "  " -> ""
      [] OTHER -> line

\* line.strip().startswith('<rss')
StartsWithRss(line) == Strip(line) = "<rss>"

\* content_start, counted from 1: the first line that starts with '<rss',
\* the first line of all when there is none
ContentStart(lines) ==
    IF \E i \in 1 .. Len(lines) : StartsWithRss(lines[i])
    THEN CHOOSE i \in 1 .. Len(lines) :
            /\ StartsWithRss(lines[i])
            /\ \A j \in 1 .. i - 1 : ~StartsWithRss(lines[j])
    ELSE 1

\* a filter that keeps the lines that are not blank
KeptIfNotBlank(line) == Strip(line) # ""

\* the filter of line 1251: line.strip() or line == ''
Kept(line) == Strip(line) # "" \/ line = ""

\* the lines of the bytes handed to f.write
WrittenLines(lines) ==
    SelectSeq(SubSeq(lines, ContentStart(lines), Len(lines)), Kept)

\* the documents: up to MaxLines lines, one of them the RSS element
Documents ==
    { d \in UNION { [1 .. n -> SampleLines] : n \in 1 .. MaxLines } :
        \E i \in 1 .. Len(d) : StartsWithRss(d[i]) }

WriteInit ==
    /\ pretty_xml \in Documents
    /\ content = << >>
    /\ ScraperIdle /\ AudioIdle /\ FeedIdle /\ EnvIdle /\ MainIdle /\ EpisodesIdle
    /\ JsonIdle

\* with open(output_file, 'wb') as f: ... f.write(content.encode('utf-8'))
WriteFile ==
    /\ content = << >>
    /\ content' = WrittenLines(pretty_xml)
    /\ UNCHANGED << pretty_xml, mainVars, started, siteVars, scraperVars,
                    episodeVars, audioVars, feedVars, envVars, jsonVars >>

WriteNext == WriteFile

SpecWrite == WriteInit /\ [][WriteNext]_vars

(***************************************************************************)
(* SpecFind: extract_episodes_from_json on a parsed blob.  A value of the  *)
(* blob is a mapping or a list (a scalar holds nothing to find): shape     *)
(* tells a list from a mapping with the keys airedAt, slug and title       *)
(* ("episode"), one with slug and title only ("partial") and one with none *)
(* of them ("plain"); key is the key it is the value of ("" for the root   *)
(* and for the items of a list); kids are the mappings and lists among its *)
(* values or items, in document order.  An object is named by its path,    *)
(* the indices that lead to it from the root.                              *)
(***************************************************************************)
Node(shape, key, kids) == [shape |-> shape, key |-> key, kids |-> kids]

MappingShapes == {"episode", "partial", "plain"}
ContainerKeys == {"docs", "x"}

\* mappings without a container among their values
Leaves(keys) == { Node(sh, k, << >>) : sh \in MappingShapes, k \in keys }

\* up to two values of a mapping, under different keys
ValuesOf(nodes) ==
    {<< >>} \cup { << a >> : a \in nodes }
            \cup UNION { { << a, b >> : b \in { c \in nodes : c.key # a.key } } :
                          a \in nodes }

\* up to two items of a list
ItemsIn(nodes) ==
    {<< >>} \cup { << a >> : a \in nodes } \cup { << a, b >> : a \in nodes, b \in nodes }

\* mappings and lists one level above the leaves
Branches(keys) ==
    { Node(sh, k, kids) : sh \in MappingShapes, k \in keys,
                          kids \in ValuesOf(Leaves(ContainerKeys)) }
      \cup { Node("list", k, kids) : k \in keys, kids \in ItemsIn(Leaves({""})) }

\* the sample blobs: a mapping with up to two containers, one of them a leaf
JsonTrees ==
    { Node(sh, "", kids) :
        sh \in MappingShapes,
        kids \in {<< >>} \cup { << a >> : a \in Branches(ContainerKeys) }
                 \cup UNION { { << a, b >> : b \in Leaves(ContainerKeys \ {a.key}) }
                               \cup { << b, a >> : b \in Leaves(ContainerKeys \ {a.key}) } :
                               a \in Branches(ContainerKeys) } }

\* find_episodes(data): an episode-shaped mapping gives a candidate and the
\* walk returns; any other mapping is searched through its values (the test
\* on the key lets every mapping and list through), a list through its items
RECURSIVE find_episodes(_, _)
find_episodes(data, path) ==
    LET RECURSIVE Below(_)
        Below(i) == IF i > Len(data.kids) THEN << >>
                    ELSE find_episodes(data.kids[i], Append(path, i)) \o Below(i + 1)
    IN  IF data.shape = "episode" THEN << path >> ELSE Below(1)

FindInit ==
    /\ json_data \in JsonTrees
    /\ page_scripts = << >>
    /\ found = NotCalled
    /\ ScraperIdle /\ AudioIdle /\ FeedIdle /\ EnvIdle /\ MainIdle /\ EpisodesIdle
    /\ FileIdle

\* extract_episodes_from_json(json_data)
FindEpisodes ==
    /\ ~found.called
    /\ found' = [called |-> TRUE, list |-> find_episodes(json_data, << >>)]
    /\ UNCHANGED << page_scripts, json_data, mainVars, started, siteVars, scraperVars,
                    episodeVars, audioVars, feedVars, envVars, fileVars >>

FindNext == FindEpisodes

SpecFind == FindInit /\ [][FindNext]_vars

(***************************************************************************)
(* SpecJson: extract_json_data on the text of a page.  Of the page it      *)
(* takes the first match of each of the three window.__NUXT__ patterns and *)
(* the contents of the JSON-LD script tags.  A candidate is "none" (the    *)
(* pattern matches nowhere), "bad" (the text fails to parse), "bad-data"   *)
(* (it fails to parse and holds "data": [...]), "{}" (it parses to the     *)
(* empty mapping) or "{a}", "{b}" (it parses to a non-empty mapping).  A   *)
(* script content is "bad", "[]" (it parses to a list), "{}" or "{ld}".    *)
(***************************************************************************)
\* the first pattern takes any text between braces; the second ends at a
\* bracket with the mapping still open, so that its text never parses; the
\* third has .data between the braces, so that its mapping is not empty
PatternMatches ==
    { << m1, m2, m3 >> : m1 \in {"none", "bad", "bad-data", "{}", "{a}", "{b}"},
                         m2 \in {"none", "bad", "bad-data"},
                         m3 \in {"none", "bad", "bad-data", "{a}", "{b}"} }

LdContents == {"bad", "[]", "{}", "{ld}"}

LdScripts ==
    {<< >>} \cup { << x >> : x \in LdContents }
            \cup { << x, y >> : x \in LdContents, y \in LdContents }

\* the loop over soup.find_all('script', type='application/ld+json'): the
\* first content that parses to a mapping, empty or not
RECURSIVE FirstLdObject(_)
FirstLdObject(ld) ==
    IF ld = << >> THEN "None"
    ELSE IF Head(ld) \in {"{}", "{ld}"} THEN Head(ld)
    ELSE FirstLdObject(Tail(ld))

\* the loop over the patterns from the i-th on.  data is the local of that
\* name: "unbound" until a json.loads has succeeded, then what it returned.
\* In the handler of JSONDecodeError, isinstance(data, dict) reads it as an
\* earlier pattern left it (unbound, it raises a NameError that the bare
\* except swallows).
RECURSIVE TryPatterns(_, _, _, _)
TryPatterns(ms, i, data, ld) ==
    IF i > Len(ms) THEN FirstLdObject(ld)
    ELSE CASE ms[i] \in {"none", "bad"} -> TryPatterns(ms, i + 1, data, ld)
           [] ms[i] = "bad-data" ->
                IF data # "unbound" THEN data ELSE TryPatterns(ms, i + 1, data, ld)
           [] ms[i] = "{}" -> TryPatterns(ms, i + 1, "{}", ld)
           [] OTHER -> ms[i]

\* extract_json_data(html) on the text of a page: "None" or a mapping
ExtractJsonData(scripts) == TryPatterns(scripts.nuxt, 1, "unbound", scripts.ld)

NotReturned == [returned |-> FALSE, value |-> "None"]

JsonInit ==
    /\ page_scripts \in { [nuxt |-> ms, ld |-> ld] : ms \in PatternMatches, ld \in LdScripts }
    /\ json_data = NotReturned
    /\ found = NotCalled
    /\ ScraperIdle /\ AudioIdle /\ FeedIdle /\ EnvIdle /\ MainIdle /\ EpisodesIdle
    /\ FileIdle

\* json_data = self.extract_json_data(html)
CallExtractJsonData ==
    /\ ~json_data.returned
    /\ json_data' = [returned |-> TRUE, value |-> ExtractJsonData(page_scripts)]
    /\ UNCHANGED << page_scripts, found, mainVars, started, siteVars, scraperVars,
                    episodeVars, audioVars, feedVars, envVars, fileVars >>

JsonNext == CallExtractJsonData

SpecJson == JsonInit /\ [][JsonNext]_vars

(***************************************************************************)
(* Claims about the audio locator                                          *)
(***************************************************************************)
\* a fully-formed CDN audio URL: https, three hexadecimal segments
FullyFormed(t) == t.k = "cdn" /\ t.scheme = "https" /\ t.hex
HasFullyFormed(page) == \E i \in 1 .. Len(page.toks) : FullyFormed(page.toks[i])
\* the text of the first fully-formed CDN audio URL of a page
FirstFullyFormed(page) ==
    TextOf(page.toks[CHOOSE i \in 1 .. Len(page.toks) :
                        /\ FullyFormed(page.toks[i])
                        /\ \A j \in 1 .. i - 1 : ~FullyFormed(page.toks[j])])

\* C6: when the episode page holds a fully-formed CDN audio URL, the locator
\* returns exactly that URL (the first such URL of the page), whatever the
\* cache, the override table and the other tokens of the page are, and
\* leaves the cache alone.
C6_DirectUrlVerbatim ==
    (audio.tier # "" /\ HasFullyFormed(html)) =>
        /\ audio.url = FirstFullyFormed(html)
        /\ audio.tier = "direct"
        /\ ~audio.fetched

\* C6's case: a scraper of the override table with a filled cache is given a
\* page whose CDN URL names another show, next to a scheme-less CDN URL
C6_Witness ==
    /\ program_slug \in DOMAIN KNOWN_SHOW_IDS
    /\ show_id # ""
    /\ HasFullyFormed(html)
    /\ Len(html.toks) = 2 /\ html.toks[1].k = "cdn" /\ html.toks[1].scheme = ""
    /\ audio.url.has /\ audio.url.show # show_id

\* C7: for a scraper whose slug is in the show-ID override table, the show
\* segment of every audio URL the locator puts together (every URL that is
\* not a CDN URL copied from the page) and the value it caches equal the
\* override table entry, for every page and every sequence of calls.
C7_OverrideShowId ==
    program_slug \in DOMAIN KNOWN_SHOW_IDS =>
        /\ show_id \in {"", KNOWN_SHOW_IDS[program_slug]}
        /\ audio.tier \in {"uuids", "json"} =>
              audio.url.show = KNOWN_SHOW_IDS[program_slug]

\* C15: once the cache of a scraper holds a show ID, no call of the locator
\* changes it, and every URL a later call puts together (every URL that is
\* not a CDN URL copied from the page) has the cached value as its show
\* segment.
C15_CacheWriteOnce ==
    [][show_id # "" =>
          /\ show_id' = show_id
          /\ audio'.tier \in {"uuids", "json"} => audio'.url.show = show_id]_vars

\* the showId the omnyStudioClip reference of the blob names, be the
\* reference a mapping or a string; "" when it names none
ShowIdNamedByClipRef(json) ==
    LET refs == SelectToks(json.objs, {"clipref"})
    IN  IF json.has /\ refs # << >> /\ refs[1].typ \in {"str", "dict"}
        THEN refs[1].show ELSE ""

\* C20: a call that finds no CDN URL on the page resolves the show ID from
\* the cache; if that is empty, from the override table; if the slug is not
\* in it, from the showId that the page's omnyStudioClip reference names;
\* and only if it names none, from the program page, which is fetched in
\* this case alone.  The value resolved is the one cached and the show
\* segment of the URL put together from the page's UUIDs.
C20_ShowIdOrder ==
    [][audio'.tier \notin {"", "direct"} =>
          LET named == ShowIdNamedByClipRef(extract_json_data(html'))
              mined == ShowIdFromProgramPage(program_html', OrgIdOf(html'),
                                             CandidateUuids(html'))
              resolved == IF show_id # "" THEN show_id
                          ELSE IF program_slug \in DOMAIN KNOWN_SHOW_IDS
                            THEN KNOWN_SHOW_IDS[program_slug]
                          ELSE IF named # "" THEN named
                          ELSE mined
          IN  /\ show_id' = resolved
              /\ (audio'.tier = "uuids" /\ resolved # "") => audio'.url.show = resolved
              /\ audio'.fetched =>
                    /\ show_id = ""
                    /\ program_slug \notin DOMAIN KNOWN_SHOW_IDS
                    /\ named = ""]_vars

(***************************************************************************)
(* Claims about the order of the written feed                              *)
(***************************************************************************)
\* the input record an item was made from (URLs are distinct in feedIn)
RecordOf(item) == feedIn[CHOOSE i \in 1 .. Len(feedIn) : feedIn[i].url = item.guid]
\* the position in feedIn of the record an item was made from
InputIndex(item) == CHOOSE i \in 1 .. Len(feedIn) : feedIn[i].url = item.guid

AllDated(eps) == \A i \in 1 .. Len(eps) : eps[i].date.has
DistinctInstants(eps) ==
    \A i, j \in 1 .. Len(eps) :
        (i # j /\ eps[i].date.has /\ eps[j].date.has) => eps[i].date.t # eps[j].date.t

\* C1: for every list of records with pairwise distinct timestamps, in any
\* input order, the items of the written feed are in strictly descending
\* timestamp order (newest first).
C1_StrictlyDescending ==
    (feedPc = "written" /\ AllDated(feedIn) /\ DistinctInstants(feedIn)) =>
        /\ Len(feedOut) = Len(feedIn)
        /\ \A i, j \in 1 .. Len(feedOut) :
              i < j => RecordOf(feedOut[i]).date.t > RecordOf(feedOut[j]).date.t

\* C2: in the written feed every item of a record with no timestamp comes
\* after every item of a record with a timestamp (whatever the timestamp,
\* before the Unix epoch included), and the undated items keep the relative
\* order they had in the input list.
C2_UndatedLast ==
    feedPc = "written" =>
        \A i, j \in 1 .. Len(feedOut) :
            /\ (RecordOf(feedOut[i]).date.has /\ ~RecordOf(feedOut[j]).date.has) => i < j
            /\ (~RecordOf(feedOut[i]).date.has /\ ~RecordOf(feedOut[j]).date.has /\ i < j)
                  => InputIndex(feedOut[i]) < InputIndex(feedOut[j])

(***************************************************************************)
(* Claims about get_episodes and the feed main() writes from it            *)
(***************************************************************************)
\* get_episodes has returned
Returned == pc \in {"returned", "skipped", "written"}

\* C3: every record get_episodes returns has a timestamp, whatever the
\* airedAt value and the episode URL are and whichever way the episode was
\* discovered.
C3_DateNeverNull ==
    Returned => \A i \in 1 .. Len(episodes) : episodes[i].date.has

\* C3's case: an episode found through an anchor, its page without a blob,
\* has no airedAt and no date in its URL, and its record was returned
C3_Witness ==
    /\ pc = "returned"
    /\ episode_links # << >>
    /\ Len(episodes) = Len(episodes_data)
    /\ \E i \in 1 .. Len(episodes_data) :
          /\ episodes_data[i].airedAt.form = ""
          /\ ~parse_date_from_url(episodes_data[i].url).has
    /\ clock > 0

\* C4: the timestamp of every record get_episodes returns has UTC offset
\* zero, also when the airedAt string carried an explicit non-zero offset.
C4_DatesUtc ==
    Returned => \A i \in 1 .. Len(episodes) :
                    episodes[i].date.has => episodes[i].date.off = 0

\* C5: in a feed written from get_episodes each item's GUID is the episode
\* URL of its record (and the item's link), and no two items share a GUID.
C5_GuidUnique ==
    pc = "written" =>
        /\ Len(feedOut) = Len(episodes)
        /\ \A i \in 1 .. Len(feedOut) :
              /\ feedOut[i].guid = feedOut[i].link
              /\ \E j \in 1 .. Len(episodes) : episodes[j].url = feedOut[i].guid
        /\ \A i, j \in 1 .. Len(feedOut) : i # j => feedOut[i].guid # feedOut[j].guid

\* C8: for a scraper whose slug is in the cover-image override table the
\* program image is the table's entry, whatever the fetched page holds.
C8_CoverImageOverride ==
    (site.program.ok /\ program_slug \in DOMAIN KNOWN_PROGRAMME_IMAGES) =>
        program_image = KNOWN_PROGRAMME_IMAGES[program_slug]

\* C8's case: the page of a program of the table has an image of its own,
\* which the blob leads to, and it is not the table's
C8_Witness ==
    /\ program_slug \in DOMAIN KNOWN_PROGRAMME_IMAGES
    /\ site.program.ok
    /\ ImageFromJson(extract_json_data(site.program)).has
    /\ ImageFromJson(extract_json_data(site.program)) # program_image
    /\ program_image.has

\* the episodes discovered on the program page: the URLs of the
\* episode-shaped objects of its blob, else the targets of its episode anchors
DiscoveredOn(page, slug) ==
    LET json == extract_json_data(page)
        data == IF json.has THEN extract_episodes_from_json(json, slug) ELSE << >>
    IN  [structured |-> data # << >>,
         urls |-> IF data # << >>
                  THEN [i \in 1 .. Len(data) |-> data[i].url]
                  ELSE extract_episode_links_from_html(page, slug)]

\* what a record and an item say of an episode: its URL and its audio URL
RecordSig(ep) == << ep.url, ep.audio_url >>
ItemSig(it) == << it.guid, IF it.hasEncl THEN it.enclosure ELSE NoAudioUrl >>
\* how often a value occurs in a sequence
Count(xs, x) == Cardinality({ i \in 1 .. Len(xs) : xs[i] = x })
\* the items are the records, one item per record, an enclosure on exactly
\* the items of records with an audio URL
ItemsMatchRecords(items, eps) ==
    /\ Len(items) = Len(eps)
    /\ \A i \in 1 .. Len(eps) :
          Count([k \in 1 .. Len(items) |-> ItemSig(items[k])], RecordSig(eps[i]))
            = Count([k \in 1 .. Len(eps) |-> RecordSig(eps[k])], RecordSig(eps[i]))
    /\ \A k \in 1 .. Len(items) : items[k].hasEncl <=> items[k].enclosure.has

\* C9 as stated: every episode discovered on the program page, through the
\* blob or through an anchor, has an item in the feed, whether or not its
\* page could be fetched and its audio located; with structured data there
\* are as many items as episode-shaped objects; an item has an enclosure if
\* and only if an audio URL was found.
C9_DiscoveredNeverDropped ==
    (Returned /\ site.program.ok) =>
        LET d == DiscoveredOn(site.program, program_slug)
        IN  /\ \A i \in 1 .. Len(d.urls) :
                  \E j \in 1 .. Len(episodes) : episodes[j].url = d.urls[i]
            /\ d.structured => Len(episodes) = Len(d.urls)
            /\ pc = "written" => ItemsMatchRecords(feedOut, episodes)

\* what the anchor at position k and after add to episodes_data, given the
\* outcomes of the requests made for them
RECURSIVE CollectedFrom(_, _, _, _, _)
CollectedFrom(links, k, reqs, st, slug) ==
    IF k > Len(links) THEN << >>
    ELSE LET page == SitePage(st, links[k])
             json == extract_json_data(page)
             list == IF json.has THEN extract_episodes_from_json(json, slug) ELSE << >>
             here == IF ~reqs[1 + k].ok THEN << >>
                     ELSE IF list # << >> THEN [i \in 1 .. Len(list) |-> list[i].url]
                     ELSE << links[k] >>
         IN  here \o CollectedFrom(links, k + 1, reqs, st, slug)

\* the URLs of the episodes get_episodes collects: those of the objects of
\* the program page's blob, else those found on the pages of the anchors
\* that could be fetched
Collected ==
    LET d == DiscoveredOn(site.program, program_slug)
    IN  IF d.structured THEN d.urls
        ELSE CollectedFrom(d.urls, 1, requests, site, program_slug)

\* C9, amended: every episode get_episodes collects (each episode-shaped
\* object of the program page's blob; else, for each anchor whose page could
\* be fetched, each episode-shaped object of that page's blob or, without
\* one, the anchor's target) gives exactly one record and one item, whether
\* or not its page could be fetched afterwards and its audio located; an item
\* has an enclosure if and only if an audio URL was found; an anchor whose
\* page could not be fetched gives no item.
C9_CollectedOneItemEach ==
    (Returned /\ site.program.ok) =>
        /\ Len(episodes) = Len(Collected)
        /\ \A i \in 1 .. Len(Collected) :
              Count([k \in 1 .. Len(episodes) |-> episodes[k].url], Collected[i])
                = Count(Collected, Collected[i])
        /\ pc = "written" => ItemsMatchRecords(feedOut, episodes)

\* C9's case: of two anchors the page of the first could not be fetched and
\* that of the second could; the feed is written and has an item without an
\* enclosure
C9_Witness ==
    /\ pc = "written"
    /\ Len(episode_links) = 2
    /\ ~requests[2].ok /\ requests[3].ok
    /\ \E i \in 1 .. Len(feedOut) : ~feedOut[i].hasEncl
    /\ \A i \in 1 .. Len(feedOut) : feedOut[i].guid # episode_links[1]

\* C10: when the program page has no usable blob (none, or one that does not
\* parse to a non-empty mapping, JSON-LD included) and no anchor to an
\* episode of the program, get_episodes makes no further request, collects
\* nothing and returns the empty list; no feed is written.
C10_NothingFoundEmptyList ==
    (site.program.ok
       /\ ~extract_json_data(site.program).has
       /\ \A i \in 1 .. Len(site.program.toks) :
             site.program.toks[i].k = "anchor" => site.program.toks[i].form # "own") =>
        /\ pc \in {"process", "returned", "skipped"}
        /\ episode_links = << >> /\ episodes_data = << >> /\ episodes = << >>
        /\ Len(requests) = 1
        /\ feedPc = "idle"

\* C10's case: a page with an unusable blob and an anchor to an episode of
\* another program; get_episodes has returned and the program is skipped
C10_Witness ==
    /\ pc = "skipped"
    /\ site.program.ok
    /\ site.program.blob = "bad"
    /\ \E i \in 1 .. Len(site.program.toks) : site.program.toks[i].k = "anchor"
    /\ \A i \in 1 .. Len(site.program.toks) :
          site.program.toks[i].k = "anchor" => site.program.toks[i].form # "own"
    /\ episodes = << >>

(***************************************************************************)
(* Claims about one episode-shaped object and about malformed data         *)
(***************************************************************************)
\* the episode-shaped objects of the program page's blob
ProgramObjects == SelectToks(extract_json_data(site.program).objs, {"episode"})
\* the program page was fetched and its blob holds exactly one such object
OneEpisodeObject == site.program.ok /\ Len(ProgramObjects) = 1
\* an object get_episodes cannot get through
Malformed(o) == o.desc \in {"null", "string", "list"} \/ o.aired.form = "number"

C12_NeverFatal == pc # "crashed"

(***************************************************************************)
(* Claims about network failures                                           *)
(***************************************************************************)
\* some page of the site holds an object get_episodes cannot get through
RaisingSite ==
    \E page \in {site.program} \cup { site.eps[e] : e \in EpisodeSlugs } :
        RaisingPage(page)

\* C13: a request that fails raises nothing.  When the program page is
\* unavailable get_episodes returns the empty list and no cover image after
\* that one request; when the program page is unavailable to the audio
\* locator, the locator caches nothing and goes on: with two candidate UUIDs
\* it takes the first for the show, else it turns to the blob; the run ends
\* by an exception only where the site holds malformed data.
C13_NetworkFailureContained ==
    /\ (requests # << >> /\ ~requests[1].ok) =>
          /\ pc \in {"returned", "skipped"}
          /\ Len(requests) = 1
          /\ episodes = << >>
          /\ program_image = NoImage
    /\ (audio.fetched /\ ~program_html.ok) =>
          /\ show_id = ""
          /\ IF Len(CandidateUuids(html)) >= 2
             THEN /\ audio.tier = "uuids"
                  /\ audio.url = AudioUrl(OrgIdOf(html), CandidateUuids(html)[1],
                                          CandidateUuids(html)[1])
             ELSE audio.tier \in {"json", "none"}
    /\ pc = "crashed" => RaisingSite

\* C13's case: the locator asked for the program page and did not get it,
\* and an audio URL was returned all the same; get_episodes has returned
C13_Witness ==
    /\ pc = "returned"
    /\ audio.fetched /\ ~program_html.ok
    /\ audio.url.has
    /\ \E i \in 2 .. Len(requests) :
          requests[i] = Request(ProgramUrl(program_slug), FALSE)
    /\ episodes # << >>

ProcessingRequests == SubSeq(requests, 2 + Len(episode_links), Len(requests))

\* what a scraper for program_slug whose cache holds cached, knowing nothing
\* but this program's site and the outcomes reqs of its requests, gives for
\* the entries k .. n of episodes_data: the audio URLs, after urls, and the
\* cache at the end
RECURSIVE FreshRun(_, _, _, _, _)
FreshRun(k, n, reqs, cached, urls) ==
    IF k > n THEN [cache |-> cached, urls |-> urls]
    ELSE LET page == IF reqs[1].ok THEN SitePage(site, episodes_data[k].url)
                     ELSE NoPage
             asks == page.ok /\ extract_audio_url_from_episode_page(
                                    page, program_slug, cached, NoPage).fetched
             prog == IF asks /\ reqs[2].ok THEN site.program ELSE NoPage
             r == extract_audio_url_from_episode_page(page, program_slug, cached, prog)
         IN  IF page.ok
             THEN FreshRun(k + 1, n, SubSeq(reqs, IF asks THEN 3 ELSE 2, Len(reqs)),
                           r.cache, Append(urls, r.url))
             ELSE FreshRun(k + 1, n, Tail(reqs), cached, Append(urls, NoAudioUrl))

\* C16: every program gets a scraper of its own whose cache starts empty, and
\* at every point of the processing of a program the cache and the audio
\* URLs of its records are what a scraper that starts with an empty cache
\* gives on this program's pages and request outcomes alone, whichever
\* programs came before.  (The override tables are never assigned to.)
C16_NothingShared ==
    /\ [][started' # started =>
             show_id' = "" /\ program_slug' = programs[progIdx]]_vars
    /\ [](pc = "process" =>
             LET n == epIdx - 1
                 fresh == FreshRun(1, n, ProcessingRequests, "", << >>)
             IN  /\ show_id = fresh.cache
                 /\ Len(episodes) = n
                 /\ \A i \in 1 .. n : episodes[i].audio_url = fresh.urls[i])

\* C16's case: the second program of the list, outside the override table,
\* is being processed after a program whose scraper had cached a show ID;
\* its own scraper has resolved another one
C16_Witness ==
    /\ pc = "process" /\ progIdx = 2
    /\ programs[1] \in DOMAIN KNOWN_SHOW_IDS
    /\ programs[1] \in files
    /\ show_id \notin {"", KNOWN_SHOW_IDS[programs[1]]}
    /\ episodes # << >> /\ episodes[Len(episodes)].audio_url.has

(***************************************************************************)
(* Claims about the written file                                           *)
(***************************************************************************)
\* the lines of the document from its RSS element onwards
FromRss(lines) == SubSeq(lines, ContentStart(lines), Len(lines))

\* C17 as stated: the written content starts with the line of the RSS
\* element: every line before it is dropped and no line from it onwards is.
C17_FromRssNothingDropped ==
    content # << >> =>
        /\ StartsWithRss(content[1])
        /\ content = FromRss(pretty_xml)

\* C17, amended: the written content starts with the line of the RSS
\* element; every line before it is dropped, and from it onwards the lines
\* of blanks are dropped and every other line, the empty ones included, is
\* kept in its place.
C17_FromRssBlanksDropped ==
    content # << >> =>
        LET rest == FromRss(pretty_xml)
            keptAt == { i \in 1 .. Len(rest) : rest[i] = "" \/ Strip(rest[i]) # "" }
        IN  /\ StartsWithRss(content[1])
            /\ Len(content) = Cardinality(keptAt)
            /\ \A i \in keptAt :
                  content[Cardinality({ j \in keptAt : j <= i })] = rest[i]

\* C17's case: a declaration before the RSS element, an empty line and a
\* line of blanks after it, and the file is written
C17_Witness ==
    /\ content # << >>
    /\ pretty_xml[1] = "<?xml?>" /\ pretty_xml[2] = "<rss>"
    /\ {"", "  "} \subseteq Range(pretty_xml)

(***************************************************************************)
(* Claims about the requests                                               *)
(***************************************************************************)
\* s is the beginning of t
IsPrefix(s, t) == Len(s) <= Len(t) /\ SubSeq(t, 1, Len(s)) = s

\* C18: requests are made one after the other and program by program.  The
\* requests made so far are all complete (each has its outcome) and all for
\* the program of the current round; a step adds requests at the end of
\* those already complete; and the run goes on to the next program only
\* when no link and no episode of the current one is left to be fetched,
\* so that no request of a program follows one of a later program.
C18_Sequential ==
    [][/\ \A i \in 1 .. Len(requests') :
             /\ requests'[i].ok \in BOOLEAN
             /\ requests'[i].url.prog = programs[progIdx]
       /\ progIdx' \in {progIdx, progIdx + 1}
       /\ progIdx' = progIdx => IsPrefix(requests, requests')
       /\ progIdx' = progIdx + 1 =>
             /\ requests' = << >>
             /\ linkIdx \notin 1 .. Len(episode_links)
             /\ epIdx \notin 1 .. Len(episodes_data)]_vars

\* C18's case: the second program has made its requests, a secondary fetch
\* of its page among them, after a first program that made some
C18_Witness ==
    /\ progIdx = 2 /\ pc = "returned"
    /\ programs[1] \in files
    /\ Len(requests) >= 4
    /\ \E i \in 2 .. Len(requests) : requests[i].url.kind = "program"

(***************************************************************************)
(* Claims about the timestamp of a record                                  *)
(***************************************************************************)
\* C19: the timestamp of a record is the instant its airedAt parses to; if
\* airedAt is absent or parses to nothing, the ordinal date of the episode
\* URL when that is a calendar date; and only if that gives nothing either,
\* the time of the call (a reading of the clock, at offset zero).
C19_DateSourceOrder ==
    pc = "process" =>
        /\ Len(episodes) = epIdx - 1
        /\ \A i \in 1 .. Len(episodes) :
              LET ep == episodes_data[i]
                  d == episodes[i].date
              IN  IF parse_date(ep.airedAt).has THEN d = parse_date(ep.airedAt)
                  ELSE IF parse_date_from_url(ep.url).has
                    THEN d = parse_date_from_url(ep.url)
                  ELSE d.has /\ d.off = 0 /\ d.t \in NowTicks /\ d.t <= clock

\* C19's case: the records of a program are made; one episode has an
\* airedAt and a URL date that differ, one has a URL date and no airedAt
C19_Witness ==
    /\ pc = "process" /\ epIdx > Len(episodes_data)
    /\ \E i \in 1 .. Len(episodes_data) :
          /\ parse_date(episodes_data[i].airedAt).has
          /\ parse_date_from_url(episodes_data[i].url).has
          /\ parse_date(episodes_data[i].airedAt) # parse_date_from_url(episodes_data[i].url)
    /\ \E i \in 1 .. Len(episodes_data) :
          /\ ~parse_date(episodes_data[i].airedAt).has
          /\ parse_date_from_url(episodes_data[i].url).has

(***************************************************************************)
(* Claims about the structured data                                        *)
(***************************************************************************)
\* the object of the blob at a path
RECURSIVE ObjectAt(_, _)
ObjectAt(data, path) ==
    IF path = << >> THEN data ELSE ObjectAt(data.kids[Head(path)], Tail(path))

\* the paths of all the objects of the blob, in depth-first document order
RECURSIVE PathsOf(_, _)
PathsOf(data, path) ==
    LET RECURSIVE Below(_)
        Below(i) == IF i > Len(data.kids) THEN << >>
                    ELSE PathsOf(data.kids[i], Append(path, i)) \o Below(i + 1)
    IN  << path >> \o Below(1)

\* C21: find_episodes gives exactly one candidate for every object of the
\* blob that has airedAt, slug and title, in depth-first document order,
\* whatever its depth and its key and also when it lies inside another such
\* object, and none for any other object.
C21_EveryEpisodeObject ==
    found.called =>
        found.list = SelectSeq(PathsOf(json_data, << >>),
                               LAMBDA q : ObjectAt(json_data, q).shape = "episode")

(***************************************************************************)
(* Claims about the discovery of episodes                                  *)
(***************************************************************************)
\* get_episodes has the program page and is discovering or processing
Discovering == pc \in {"discover", "process"} /\ site.program.ok

\* the episode-shaped objects of the blob of the program page
BlobEpisodes ==
    SelectToks(extract_json_data(site.program).objs, {"episode"})

\* C22 as stated: episode pages are fetched for discovery, through the
\* anchors of the program page, exactly when no structured data can be
\* recovered from it; when a blob is recovered the anchors play no part.
C22_ScanIffNoBlob ==
    Discovering =>
        IF extract_json_data(site.program).has
        THEN episode_links = << >> /\ pc # "discover"
        ELSE episode_links = extract_episode_links_from_html(site.program, program_slug)

\* C22, amended: the anchors are scanned, and the episode pages they lead
\* to fetched for discovery, exactly when the structured data of the
\* program page gives no episode: none can be recovered, or what is
\* recovered holds no episode-shaped object.  When it gives an episode,
\* the list has one entry for each of its episode-shaped objects and
\* nothing else, and no page is fetched for discovery.
C22_ScanIffNoBlobEpisode ==
    Discovering =>
        IF BlobEpisodes # << >>
        THEN /\ episode_links = << >> /\ pc = "process"
             /\ Len(episodes_data) = Len(BlobEpisodes)
             /\ \A i \in 1 .. Len(BlobEpisodes) :
                   episodes_data[i].title = BlobEpisodes[i].title
             /\ epIdx = 1 => Len(requests) = 1
        ELSE /\ episode_links = extract_episode_links_from_html(site.program, program_slug)
             /\ pc = "discover" => Len(requests) = linkIdx

\* C22's case: the blob of the program page was recovered and holds no
\* episode, and the page of an anchor is about to be fetched
C22_Witness ==
    /\ pc = "discover"
    /\ extract_json_data(site.program).has
    /\ BlobEpisodes = << >>
    /\ linkIdx = 1 /\ episode_links # << >>

\* the candidates of the patterns that parse to a non-empty mapping, in the
\* order of the patterns
NonEmptyMappings(ms) == SelectSeq(ms, LAMBDA m : m \in {"{a}", "{b}"})

\* C23: extract_json_data returns the first candidate of the patterns that
\* parses to a non-empty mapping; if there is none, the first JSON-LD
\* script content that parses to a mapping; if there is none either, None.
\* A candidate that fails to parse or parses to the empty mapping is never
\* returned.
C23_FirstNonEmptyMapping ==
    json_data.returned =>
        LET blobs == NonEmptyMappings(page_scripts.nuxt)
            lds == SelectSeq(page_scripts.ld, LAMBDA x : x \in {"{}", "{ld}"})
        IN  json_data.value = IF blobs # << >> THEN blobs[1]
                              ELSE IF lds # << >> THEN lds[1]
                              ELSE "None"

(***************************************************************************)
(* Claims about the cover image                                            *)
(***************************************************************************)
\* the image URLs of a page that are not generic images
Eligible(page) == SelectSeq(SelectToks(page.toks, {"img"}), LAMBDA t : ~t.generic)

\* C24: when the cover image comes from the scan of the markup (the slug is
\* not in the override table and the blob leads to no image), its size is
\* the most preferred one that any eligible image URL of the page has:
\* 2000 wide if there is one, else 1200x630, else 800x450, else another
\* size, be the URLs quoted "url" values or bare.
C24_MostPreferredSize ==
    (/\ site.program.ok
     /\ program_slug \notin DOMAIN KNOWN_PROGRAMME_IMAGES
     /\ ~ImageFromJson(extract_json_data(site.program)).has) =>
        LET sizes == { Eligible(site.program)[i].size :
                         i \in 1 .. Len(Eligible(site.program)) }
        IN  IF "2000" \in sizes THEN program_image.has /\ program_image.size = "2000"
            ELSE IF "1200" \in sizes THEN program_image.has /\ program_image.size = "1200"
            ELSE IF "800" \in sizes THEN program_image.has /\ program_image.size = "800"
            ELSE program_image.has => program_image.size \in sizes

(***************************************************************************)
(* Claims about the UUIDs the audio URL is put together from               *)
(***************************************************************************)
\* C25: a call that resolves no show ID (the cache is still empty after it)
\* and finds two candidate UUIDs or more puts the URL together with the
\* first candidate as the show segment and the last one as the clip segment.
C25_FallbackFirstLast ==
    LET unique_uuids == CandidateUuids(html)
    IN  (audio.tier = "uuids" /\ show_id = "" /\ Len(unique_uuids) >= 2) =>
            audio.url = AudioUrl(OrgIdOf(html), unique_uuids[1],
                                 unique_uuids[Len(unique_uuids)])

\* the build ID of a page, "" when it names none
BuildIdOf(page) ==
    LET builds == SelectToks(page.toks, {"build"})
    IN  IF builds # << >> THEN builds[1].id ELSE ""

\* C26: a call that puts the URL together from the candidate UUIDs with a
\* known show ID takes as clip segment the earliest candidate that is not
\* the show ID; the clip segment differs from the show segment, from the
\* organization ID and from the build ID.
C26_ClipNotShow ==
    LET unique_uuids == CandidateUuids(html)
        others == SelectSeq(unique_uuids, LAMBDA u : u # audio.url.show)
    IN  (audio.tier = "uuids" /\ show_id # "") =>
            /\ others # << >>
            /\ audio.url.clip = others[1]
            /\ audio.url.clip # audio.url.show
            /\ Lower(audio.url.clip) # Lower(OrgIdOf(html))
            /\ Lower(audio.url.clip) # Lower(BuildIdOf(html))

\* C27: when the call fetched the program page and that page has no
\* omnyStudio showId setting, the show ID cached is the first UUID of the
\* program page that is not the organization ID and is not, as a UUID
\* (whatever the case of its letters), a candidate UUID of the episode page;
\* the cache stays empty when the program page has no such UUID.
C27_MinedShowId ==
    LET unique_uuids == CandidateUuids(html)
        org_id == OrgIdOf(html)
        program_uuids == Dedupe(FindAllUuids(program_html.toks), {})
        fresh == SelectSeq(program_uuids,
                     LAMBDA u : /\ Lower(u) # Lower(org_id)
                                /\ \A i \in 1 .. Len(unique_uuids) :
                                       Lower(u) # Lower(unique_uuids[i]))
    IN  (/\ audio.fetched
         /\ program_html.ok
         /\ SelectToks(program_html.toks, {"showcfg"}) = << >>) =>
            show_id = IF fresh # << >> THEN fresh[1] ELSE ""

(***************************************************************************)
(* Claims about the number of requests of a program                        *)
(***************************************************************************)
\* the positions in requests of the requests of the given kind
RequestsOfKind(kind) == { i \in 1 .. Len(requests) : requests[i].url.kind = kind }

\* C28: while a program whose episodes come from the structured data of its
\* page is processed, each episode having a page of its own, the program
\* page has been requested twice at most (once by get_episodes, once for the
\* show ID), and one request has been made for the page of each episode
\* processed so far.
C28_FetchCounts ==
    (/\ Discovering /\ BlobEpisodes # << >>
     /\ \A k \in 1 .. Len(episodes_data) : episodes_data[k].url.kind = "episode") =>
        /\ Cardinality(RequestsOfKind("program")) <= 2
        /\ Cardinality(RequestsOfKind("episode")) = epIdx - 1
        /\ \A k \in 1 .. epIdx - 1 :
              \E i \in RequestsOfKind("episode") : requests[i].url = episodes_data[k].url

(***************************************************************************)
(* Claims about the description of an episode                              *)
(***************************************************************************)
\* C29: the record of an episode that comes from the structured data of the
\* program page, and whose object has a description with text children
\* (description.root.children), has as description the text of those
\* children joined with single spaces.
C29_DescriptionFromChildren ==
    (Discovering /\ BlobEpisodes # << >>) =>
        \A k \in 1 .. Len(episodes) :
            BlobEpisodes[k].desc = "richtext" => episodes[k].description = ChildrenText

(***************************************************************************)
(* Claims about the blank lines of the written file                        *)
(***************************************************************************)
\* the positions of the lines of the file that hold something else than blanks
ContentLines == { i \in 1 .. Len(content) : Strip(content[i]) # "" }

\* C30: blank lines are collapsed: between the first and the last content
\* line of the written file there is no line that is empty or holds only
\* blanks.
C30_NoBlankLineInside ==
    \A i \in 1 .. Len(content) :
        (\E j, k \in ContentLines : j < i /\ i < k) => i \in ContentLines
====
